---- MODULE Spec2Model ----
(***************************************************************************)
(* picsteg: least-significant-bit steganography over an RGB pixel grid.    *)
(* The model follows src/src/utils.rs: encode_image and decode_image are   *)
(* walked one colour channel per step; to_binary, text_to_bits and         *)
(* is_encodable are operators computed the way the code computes them.     *)
(*                                                                         *)
(* A bit string (a Rust String of '0'/'1') is a sequence of 0/1.  A text   *)
(* (a Rust String) is a sequence of Unicode code points; its bytes are its *)
(* UTF-8 encoding.  An RgbImage is the row-major sequence of its channel   *)
(* values, three per pixel.                                                *)
(***************************************************************************)
EXTENDS Integers, Sequences, FiniteSets, TLC

VARIABLES
    pc,           \* where the program is: idle, encoding, encoded, decoding, decoded, enc_panic, dec_panic
    error,        \* the panic message of the failed operation, "" when none
    text,         \* encode_image's `secret` argument (code points)
    image0,       \* the grid handed to encode_image
    image,        \* the grid being walked (mutated in place by encode_image)
    encoded,      \* TRUE once `image` is a value returned by encode_image
    bits,         \* encode_image's `bits` argument (i8)
    secret_bits,  \* encode_image's remaining bit-stream
    idx,          \* number of channels the running walk has visited
    dbits,        \* decode_image's `bits` argument (i8)
    secret,       \* decode_image's accumulated text (code points)
    char,         \* decode_image's pending bits
    n_bits,       \* the local n_bits of the last channel step
    result,       \* the String decode_image returned
    number,       \* to_binary's argument (codec specification)
    binary        \* to_binary's / text_to_bits' result (codec specification)

vars == <<pc, error, text, image0, image, encoded, bits, secret_bits, idx,
          dbits, secret, char, n_bits, result, number, binary>>

----------------------------------------------------------------------------
(* Bounds of the model *)

\* bits arguments are drawn from -NegBitsArg .. MaxBitsArg
MaxBitsArg == 9
NegBitsArg == 1
\* pixel count of the synthetic grid
SynthPixels == 2

BitsArgs == (0 - NegBitsArg) .. MaxBitsArg

----------------------------------------------------------------------------
(* Constants and pure helpers of utils.rs *)

DELIMITER == <<35, 35, 35, 35, 35>>

\* `x as usize`: a negative i8 wraps around the word.  The word is kept at 30
\* bits (TLC's integers are 32-bit); every comparison the code makes is
\* against a length below 2^30, so the outcome is that of the 64-bit word.
UsizeModulus == 2^30

AsUsize(x) == x % UsizeModulus

\* format!("{:b}", number): the shortest binary form, "0" for 0
RECURSIVE FormatB(_)
FormatB(n) == IF n < 2 THEN <<n>> ELSE FormatB(n \div 2) \o <<n % 2>>

\* format!("{:0>8}", s): left-padded with '0' to width 8, longer strings kept
PadLeft8(s) ==
    IF Len(s) >= 8 THEN s
    ELSE [i \in 1..8 |-> IF i <= 8 - Len(s) THEN 0 ELSE s[i - (8 - Len(s))]]

to_binary_lsb_first(n) == [i \in 1..8 |-> (n \div 2^(i - 1)) % 2]

to_binary(n) == PadLeft8(FormatB(n))

\* from_str_radix(s, 2)
RECURSIVE FromRadix2(_)
FromRadix2(s) ==
    IF s = <<>> THEN 0
    ELSE (2 * FromRadix2(SubSeq(s, 1, Len(s) - 1))) + s[Len(s)]

\* String::into_bytes of one code point: its UTF-8 encoding
Utf8(cp) ==
    IF cp < 128 THEN <<cp>>
    ELSE IF cp < 2048 THEN <<192 + (cp \div 64), 128 + (cp % 64)>>
    ELSE IF cp < 65536 THEN
        <<224 + (cp \div 4096), 128 + ((cp \div 64) % 64), 128 + (cp % 64)>>
    ELSE <<240 + (cp \div 262144), 128 + ((cp \div 4096) % 64),
           128 + ((cp \div 64) % 64), 128 + (cp % 64)>>

RECURSIVE into_bytes(_)
into_bytes(t) ==
    IF t = <<>> THEN <<>> ELSE Utf8(Head(t)) \o into_bytes(Tail(t))

RECURSIVE BytesToBits(_)
BytesToBits(bs) ==
    IF bs = <<>> THEN <<>> ELSE to_binary(Head(bs)) \o BytesToBits(Tail(bs))

text_to_bits(t) == BytesToBits(into_bytes(t))

\* (a as f64 / b as f64).ceil(), for b # 0 and a >= 0: the quotient is exact
\* in f64 for every length below 2^53 / 8
CeilDiv(a, b) ==
    IF b > 0 THEN (a + b - 1) \div b
    ELSE 0 - (a \div (0 - b))

\* the capacity check with the quotient rounded down instead of up
is_encodable_floor(img, sbits, b) ==
    IF b > 0 THEN ~ (Len(sbits) \div b > Len(img)) ELSE TRUE

\* with b = 0 and a non-empty stream the quotient is +inf, which the cast to
\* i64 saturates: more chunks than any grid has channels
is_encodable(img, sbits, b) ==
    IF b = 0 /\ Len(sbits) > 0 THEN FALSE
    ELSE IF b = 0 THEN TRUE
    ELSE LET chunks  == CeilDiv(Len(sbits), b)
             n_bytes == Len(img)
         IN  ~ (chunks > n_bytes)

\* the guard `bits == 0` of both operations
bits_is_negative(b) == b < 0

bits_is_zero(b) == b = 0

\* secret_bits.is_empty(), the break of encode_image's loop
is_empty_never(sbits) == FALSE

is_empty(sbits) == sbits = <<>>

\* encode_image's n_bits: `bits as usize`, capped by the remaining stream
chunk_len(b, sbits) ==
    LET n0 == AsUsize(b)
    IN  IF n0 > Len(sbits) THEN Len(sbits) ELSE n0

\* the channel's new value written with its high bits cleared
new_color_zero_high(color, sbits, n) == PadLeft8(SubSeq(sbits, 1, n))

\* encode_image's new_color: the high 8 - n_bits characters of the channel,
\* then the first n_bits of the stream
new_color(color, sbits, n) ==
    SubSeq(to_binary(color), 1, 8 - n) \o SubSeq(sbits, 1, n)

\* str::ends_with
EndsWith(s, suffix) ==
    /\ Len(s) >= Len(suffix)
    /\ SubSeq(s, Len(s) - Len(suffix) + 1, Len(s)) = suffix

\* the slice start without the boundary correction
take_start_uncorrected(sec, ch, b) == AsUsize(8 - b)

\* decode_image's n_bits, the index its slice of the channel starts at:
\* 8 - bits, or the pending length when the text ends with the delimiter less
\* its last character and this channel completes a byte
take_start(sec, ch, b) ==
    IF /\ EndsWith(sec, SubSeq(DELIMITER, 1, Len(DELIMITER) - 1))
       /\ (AsUsize(b) + Len(ch)) % UsizeModulus >= 8
    THEN Len(ch)
    ELSE AsUsize(8 - b)

\* str::replace(pat, ""): every non-overlapping match, left to right, removed
RECURSIVE RemoveAll(_, _)
RemoveAll(s, pat) ==
    IF Len(s) < Len(pat) THEN s
    ELSE IF SubSeq(s, 1, Len(pat)) = pat
         THEN RemoveAll(SubSeq(s, Len(pat) + 1, Len(s)), pat)
         ELSE <<Head(s)>> \o RemoveAll(Tail(s), pat)

----------------------------------------------------------------------------
(* Inputs *)

\* tests::mock_image, a 2 x 3 grid, in pixels() order
mock_image ==
    <<225, 12, 99,  155, 2, 50,
      99, 51, 15,   15, 55, 22,
      155, 61, 87,  63, 30, 17>>

\* tests::encoded_image: mock_image encoded with "hi" at 6 bits
encoded_image ==
    <<218, 6, 100,  163, 8, 50,
      76, 35, 8,    15, 55, 22,
      155, 61, 87,  63, 30, 17>>

\* tests::rand_image, a 5 x 4 grid of one colour
rand_image == [k \in 1..60 |-> <<225, 104, 175>>[((k - 1) % 3) + 1]]

\* a grid of p pixels with varied channel values
SynthGrid(p) == [k \in 1..(3 * p) |-> ((k * 89) + 150) % 256]

Grids == {<<>>, SynthGrid(SynthPixels), mock_image, rand_image}

\* "", "hi", "Hi", "Heyo", "#", "####a", "e-acute"
Texts ==
    { <<>>, <<104, 105>>, <<72, 105>>, <<72, 101, 121, 111>>,
      <<35>>, <<35, 35, 35, 35, 97>>, <<233>> }

----------------------------------------------------------------------------
(* The program *)

Init ==
    /\ pc = "idle"
    /\ error = ""
    /\ text \in Texts
    /\ image0 \in Grids
    /\ image = image0
    /\ encoded = FALSE
    /\ bits = 0
    /\ secret_bits = <<>>
    /\ idx = 0
    /\ dbits = 0
    /\ secret = <<>>
    /\ char = <<>>
    /\ n_bits = 0
    /\ result = <<>>
    /\ number = 0
    /\ binary = <<>>

\* encode_image up to its loop: the bits check, the serialization, the
\* capacity check
EncodeCall(b) ==
    /\ pc = "idle"
    /\ bits' = b
    /\ idx' = 0
    /\ IF bits_is_zero(b)
       THEN /\ pc' = "enc_panic"
            /\ error' = "Bits to encode must be higher than 0."
            /\ UNCHANGED secret_bits
       ELSE /\ secret_bits' = text_to_bits(text \o DELIMITER)
            /\ IF ~ is_encodable(image, secret_bits', b)
               THEN /\ pc' = "enc_panic"
                    /\ error' = "The Secret is too large to be encoded."
               ELSE /\ pc' = "encoding"
                    /\ UNCHANGED error
    /\ UNCHANGED <<text, image0, image, encoded, dbits, secret, char, n_bits,
                   result, number, binary>>

\* one colour of encode_image's loop
EncodeStep ==
    /\ pc = "encoding"
    /\ idx < Len(image)
    /\ ~ is_empty(secret_bits)
    /\ LET n == chunk_len(bits, secret_bits)
       IN  /\ n_bits' = n
           /\ IF n > 8
              THEN \* 8 - n_bits underflows: a panic in a debug build, a
                   \* wrapped slice bound (and its panic) in a release build
                   /\ pc' = "enc_panic"
                   /\ error' \in {"attempt to subtract with overflow",
                                  "slice index out of range"}
                   /\ UNCHANGED <<image, secret_bits, idx>>
              ELSE /\ image' = [image EXCEPT ![idx + 1] =
                                   FromRadix2(new_color(image[idx + 1], secret_bits, n))]
                   /\ secret_bits' = SubSeq(secret_bits, n + 1, Len(secret_bits))
                   /\ idx' = idx + 1
                   /\ UNCHANGED <<pc, error>>
    /\ UNCHANGED <<text, image0, encoded, bits, dbits, secret, char, result,
                   number, binary>>

\* the loop of encode_image ends: the stream is empty or the grid is walked
EncodeReturn ==
    /\ pc = "encoding"
    /\ (is_empty(secret_bits) \/ idx = Len(image))
    /\ pc' = "encoded"
    /\ encoded' = TRUE
    /\ UNCHANGED <<error, text, image0, image, bits, secret_bits, idx, dbits,
                   secret, char, n_bits, result, number, binary>>

\* decode_image up to its loop, on the grid as it is (encoded or not)
DecodeCall(b) ==
    /\ pc \in {"idle", "encoded"}
    /\ dbits' = b
    /\ idx' = 0
    /\ secret' = <<>>
    /\ char' = <<>>
    /\ IF bits_is_zero(b)
       THEN /\ pc' = "dec_panic"
            /\ error' = "Bits to decode must be higher than 0."
       ELSE /\ pc' = "decoding"
            /\ UNCHANGED error
    /\ UNCHANGED <<text, image0, image, encoded, bits, secret_bits, n_bits,
                   result, number, binary>>

\* one colour of decode_image's loop
DecodeStep ==
    /\ pc = "decoding"
    /\ idx < Len(image)
    /\ ~ EndsWith(secret, DELIMITER)
    /\ LET d == 8 - dbits
           n == take_start(secret, char, dbits)
       IN  /\ n_bits' = n
           /\ IF d > 127 \/ n > 8
              THEN \* 8 - bits overflows i8, or the slice starts past the end
                   /\ pc' = "dec_panic"
                   /\ error' \in IF d > 127
                                  THEN {"attempt to subtract with overflow",
                                        "slice index out of range"}
                                  ELSE {"slice index out of range"}
                   /\ UNCHANGED <<secret, char, idx>>
              ELSE LET c == char \o SubSeq(to_binary(image[idx + 1]), n + 1, 8)
                   IN  /\ IF Len(c) >= 8
                          THEN /\ secret' = Append(secret, FromRadix2(SubSeq(c, 1, 8)))
                               /\ char' = SubSeq(c, 9, Len(c))
                          ELSE /\ char' = c
                               /\ UNCHANGED secret
                       /\ idx' = idx + 1
                       /\ UNCHANGED <<pc, error>>
    /\ UNCHANGED <<text, image0, image, encoded, bits, secret_bits, dbits,
                   result, number, binary>>

\* the return of decode_image without its delimiter check
DecodeReturnUnchecked ==
    /\ pc = "decoding"
    /\ (EndsWith(secret, DELIMITER) \/ idx = Len(image))
    /\ pc' = "decoded"
    /\ result' = RemoveAll(secret, DELIMITER)
    /\ UNCHANGED <<error, text, image0, image, encoded, bits, secret_bits, idx,
                   dbits, secret, char, n_bits>>
    /\ UNCHANGED <<number, binary>>

\* the loop of decode_image ends: the delimiter check and the return
DecodeReturn ==
    /\ pc = "decoding"
    /\ (EndsWith(secret, DELIMITER) \/ idx = Len(image))
    /\ IF ~ EndsWith(secret, DELIMITER)
       THEN /\ pc' = "dec_panic"
            /\ error' = "Use the same amount of encoding bits for decoding the Image Secret."
            /\ UNCHANGED result
       ELSE /\ pc' = "decoded"
            /\ result' = RemoveAll(secret, DELIMITER)
            /\ UNCHANGED error
    /\ UNCHANGED <<text, image0, image, encoded, bits, secret_bits, idx, dbits,
                   secret, char, n_bits, number, binary>>

Next ==
    \/ \E b \in BitsArgs : EncodeCall(b)
    \/ EncodeStep
    \/ EncodeReturn
    \/ \E b \in BitsArgs : DecodeCall(b)
    \/ DecodeStep
    \/ DecodeReturn

Spec == Init /\ [][Next]_vars

----------------------------------------------------------------------------
(* The bit codec on its own: to_binary on every u8, text_to_bits on every  *)
(* text                                                                    *)

CodecInit ==
    /\ pc = "codec"
    /\ number \in 0..255
    /\ text \in Texts
    /\ binary = <<>>
    /\ error = ""
    /\ image0 = <<>>
    /\ image = <<>>
    /\ encoded = FALSE
    /\ bits = 0
    /\ secret_bits = <<>>
    /\ idx = 0
    /\ dbits = 0
    /\ secret = <<>>
    /\ char = <<>>
    /\ n_bits = 0
    /\ result = <<>>

ToBinaryCall ==
    /\ pc = "codec"
    /\ binary' = to_binary(number)
    /\ pc' = "to_binary"
    /\ UNCHANGED <<error, text, image0, image, encoded, bits, secret_bits, idx,
                   dbits, secret, char, n_bits, result, number>>

TextToBitsCall ==
    /\ pc = "codec"
    /\ binary' = text_to_bits(text)
    /\ pc' = "text_to_bits"
    /\ UNCHANGED <<error, text, image0, image, encoded, bits, secret_bits, idx,
                   dbits, secret, char, n_bits, result, number>>

CodecNext == ToBinaryCall \/ TextToBitsCall

CodecSpec == CodecInit /\ [][CodecNext]_vars

----------------------------------------------------------------------------
(* Vocabulary of the properties, computed by arithmetic on byte values and *)
(* not through the string operators above                                  *)

PayloadBytes == into_bytes(text \o DELIMITER)

\* L: the bit-length of payload + delimiter
StreamLen == 8 * Len(PayloadBytes)

\* bit j (from 0) of the serialized stream: MSB first within each byte
StreamBit(j) == (PayloadBytes[(j \div 8) + 1] \div 2^(7 - (j % 8))) % 2

\* ceil(L / b) for b >= 1: the least n with n * b >= L
Chunks(b) == CHOOSE n \in 0..StreamLen : n * b >= StreamLen /\ (n = 0 \/ (n - 1) * b < StreamLen)

\* the value of the bits j .. j + c - 1 of the stream, read as a binary number
RECURSIVE StreamValue(_, _)
StreamValue(j, c) ==
    IF c = 0 THEN 0 ELSE (2 * StreamValue(j, c - 1)) + StreamBit(j + c - 1)

Min(a, b) == IF a < b THEN a ELSE b

ValidBits == 1..8

EncodeAttempted == pc \in {"enc_panic", "encoding"} \/ encoded
DecodeAttempted == pc \in {"decoding", "decoded", "dec_panic"}
EncodeEnded == pc = "enc_panic" \/ encoded
DecodeEnded == pc \in {"decoded", "dec_panic"}

EncInvalidParameter == "Bits to encode must be higher than 0."
DecInvalidParameter == "Bits to decode must be higher than 0."
PayloadTooLarge == "The Secret is too large to be encoded."
BitWidthMismatch == "Use the same amount of encoding bits for decoding the Image Secret."

\* the text held the delimiter at some point of the walk: the text only
\* grows, so every earlier text is a prefix of the present one
EverEndedInDelimiter ==
    \E k \in 1..Len(secret) : EndsWith(SubSeq(secret, 1, k), DELIMITER)

\* the decode under way reads a grid encode_image returned, with encode's width
SameWidthDecode ==
    /\ DecodeAttempted
    /\ encoded
    /\ bits \in ValidBits
    /\ dbits = bits

----------------------------------------------------------------------------
(* C1: round trip.  For bits in 1..8 and a payload that fits, decoding the *)
(* encoded grid with the same width returns exactly the payload.           *)
(* Stated as the claim states it; the code violates it.                    *)
C1_RoundTrip ==
    (SameWidthDecode /\ DecodeEnded) => (pc = "decoded" /\ result = text)

(* C2: for bits in 1..8, encode_image fails with PayloadTooLarge if and    *)
(* only if ceil(L / bits) > 3 * pixelCount (that is, the channels hold     *)
(* fewer than L bits at that width), and a failed encode has mutated no    *)
(* channel.                                                                *)
C2_CapacityExact ==
    (EncodeAttempted /\ bits \in ValidBits) =>
        /\ (pc = "enc_panic" /\ error = PayloadTooLarge)
               <=> (Chunks(bits) > Len(image))
        /\ (Chunks(bits) > Len(image)) <=> (Len(image) * bits < StreamLen)
        /\ pc = "enc_panic" => (error = PayloadTooLarge /\ image = image0)

\* a payload one chunk over the capacity is rejected
C2_Witness ==
    /\ pc = "enc_panic"
    /\ error = PayloadTooLarge
    /\ bits \in ValidBits
    /\ Len(image) > 0
    /\ Chunks(bits) = Len(image) + 1

(* C3: after a successful encode with bits in 1..8, every channel at walk  *)
(* index >= ceil(L / bits) has its input value; during the walk no channel *)
(* ahead of the walk is touched, and the walk stops at ceil(L / bits).     *)
C3_NoMutationBeyondPayload ==
    (bits \in ValidBits /\ (pc = "encoding" \/ encoded)) =>
        LET needed == Chunks(bits)
        IN  /\ pc = "encoding" =>
                   /\ idx <= needed
                   /\ \A k \in 1..Len(image) : k > idx => image[k] = image0[k]
            /\ pc = "encoded" => (idx = needed /\ secret_bits = <<>>)
            /\ encoded =>
                   \A k \in 1..Len(image) : k > needed => image[k] = image0[k]

\* an encode that changed the grid and left channels after the payload
C3_Witness ==
    /\ pc = "encoded"
    /\ bits \in ValidBits
    /\ Chunks(bits) < Len(image)
    /\ image # image0

(* C4: for bits in 1..8, the k-th visited channel holds, in its low        *)
(* min(bits, remaining) bits, the next chunk of the stream, and keeps its  *)
(* other high bits; the chunks in walk order are the stream, only the last *)
(* one possibly shorter.  The fixture of the tests: "hi" at 6 bits turns   *)
(* mock_image into encoded_image.                                          *)
C4_ChunkWriting ==
    (bits \in ValidBits /\ (pc = "encoding" \/ encoded)) =>
        LET visited == IF pc = "encoding" THEN idx ELSE Chunks(bits)
        IN  /\ \A k \in 1..visited :
                   LET c == Min(bits, StreamLen - ((k - 1) * bits))
                   IN  /\ c >= 1
                       /\ image[k] % 2^c = StreamValue((k - 1) * bits, c)
                       /\ image[k] \div 2^c = image0[k] \div 2^c
            /\ pc = "encoding" =>
                   /\ Len(secret_bits) = StreamLen - Min(StreamLen, idx * bits)
                   /\ \A i \in 1..Len(secret_bits) :
                          secret_bits[i] = StreamBit(StreamLen - Len(secret_bits) + i - 1)
            /\ (encoded /\ text = <<104, 105>> /\ bits = 6 /\ image0 = mock_image)
                   => image = encoded_image

\* an encode whose final chunk is shorter than bits
C4_Witness ==
    /\ pc = "encoded"
    /\ bits \in ValidBits
    /\ StreamLen % bits # 0
    /\ image # image0

(* C5: for bits in 1..8 decode_image fails with BitWidthMismatch if and    *)
(* only if the walk has exhausted the grid without the text ever ending in *)
(* the delimiter; otherwise it returns the text before the delimiter.  The *)
(* fixture of the tests: encoded_image read at 7 bits is a mismatch.       *)
C5_MismatchDetection ==
    (DecodeEnded /\ dbits \in ValidBits) =>
        /\ (pc = "dec_panic" /\ error = BitWidthMismatch)
               <=> (idx = Len(image) /\ ~ EverEndedInDelimiter)
        /\ pc = "dec_panic" => error = BitWidthMismatch
        /\ pc = "decoded" => (EndsWith(secret, DELIMITER) /\ result \o DELIMITER = secret)
        /\ (image = encoded_image /\ dbits = 7) => pc = "dec_panic"

\* a grid encoded at one width and read at another is reported
C5_Witness ==
    /\ pc = "dec_panic"
    /\ error = BitWidthMismatch
    /\ encoded
    /\ bits \in ValidBits
    /\ dbits \in ValidBits
    /\ dbits # bits
    /\ idx = Len(image)

(* C6: bits = 0 is rejected by both operations with the InvalidParameter   *)
(* message, before the stream is built, before the capacity check and      *)
(* before any channel is read or written.                                  *)
C6_ZeroBitsRejected ==
    /\ (EncodeAttempted /\ bits = 0) =>
           /\ pc = "enc_panic"
           /\ error = EncInvalidParameter
           /\ image = image0
           /\ secret_bits = <<>>
           /\ idx = 0
    /\ (DecodeAttempted /\ dbits = 0) =>
           /\ pc = "dec_panic"
           /\ error = DecInvalidParameter
           /\ secret = <<>>
           /\ char = <<>>
           /\ idx = 0

\* bits = 0 with a payload no width could fit: the parameter error wins
C6_Witness ==
    /\ pc = "enc_panic"
    /\ bits = 0
    /\ error = EncInvalidParameter
    /\ Len(image) > 0
    /\ Len(image) * 8 < StreamLen

(* C7: every bits value outside 1..8 makes encode_image and decode_image   *)
(* end with the InvalidParameter error: never with another panic, never    *)
(* with a returned value.  Stated as the claim states it; the code         *)
(* violates it.                                                            *)
C7_OutOfRangeRejected ==
    /\ (EncodeEnded /\ bits \notin ValidBits) =>
           (pc = "enc_panic" /\ error = EncInvalidParameter /\ image = image0)
    /\ (DecodeEnded /\ dbits \notin ValidBits) =>
           (pc = "dec_panic" /\ error = DecInvalidParameter)

(* C8: to_binary(n) is 8 characters of 0/1 whose base-2 value is n, and    *)
(* text_to_bits(text) is the 8-bit MSB-first form of every UTF-8 byte of   *)
(* the text, in order.  to_binary(64) = 01000000, text_to_bits("Hi") =     *)
(* 0100100001101001.                                                       *)
C8_BitSerialization ==
    /\ pc = "to_binary" =>
           /\ Len(binary) = 8
           /\ \A i \in 1..8 : binary[i] \in {0, 1}
           /\ \A i \in 1..8 : binary[i] = (number \div 2^(8 - i)) % 2
           /\ number = 64 => binary = <<0, 1, 0, 0, 0, 0, 0, 0>>
    /\ pc = "text_to_bits" =>
           LET bytes == into_bytes(text)
           IN  /\ Len(binary) = 8 * Len(bytes)
               /\ \A j \in 0..(Len(binary) - 1) :
                      binary[j + 1] = (bytes[(j \div 8) + 1] \div 2^(7 - (j % 8))) % 2
               /\ text = <<72, 105>> =>
                      binary = <<0,1,0,0,1,0,0,0, 0,1,1,0,1,0,0,1>>
               /\ text = <<233>> =>
                      binary = <<1,1,0,0,0,0,1,1, 1,0,1,0,1,0,0,1>>

\* text_to_bits has run on "Hi"
C8_Witness == pc = "text_to_bits" /\ text = <<72, 105>> /\ Len(binary) = 16

\* the bits a decode step has appended to the text and the pending buffer
TakenBits == (Len(char') + (8 * (Len(secret') - Len(secret)))) - Len(char)

\* the step is at the boundary: the text ends with "####" and this channel
\* completes a byte
AtBoundary ==
    /\ EndsWith(secret, SubSeq(DELIMITER, 1, Len(DELIMITER) - 1))
    /\ Len(char) + dbits >= 8

DecodeStepTaken == pc = "decoding" /\ dbits \in ValidBits /\ idx' = idx + 1

(* C9 as stated: at a boundary step the number of low-order bits taken     *)
(* from the channel is the pending buffer's length; at every other step it *)
(* is bits.  The code violates it.                                         *)
C9_TakesPendingLength ==
    [][DecodeStepTaken =>
          TakenBits = IF AtBoundary THEN Len(char) ELSE dbits]_vars

(* C9 as amended: at a boundary step the number of low-order bits taken    *)
(* from the channel is 8 minus the pending buffer's length, which is just  *)
(* enough to complete the byte and never more than bits; at every other    *)
(* step it is bits.                                                        *)
C9_TakesByteRemainder ==
    [][DecodeStepTaken =>
          /\ TakenBits = IF AtBoundary THEN 8 - Len(char) ELSE dbits
          /\ TakenBits <= dbits
          /\ AtBoundary => (Len(char') = 0 /\ Len(secret') = Len(secret) + 1)]_vars

\* a boundary step has shortened the take: the slice started at the pending
\* length, not at 8 - bits, and it completed the delimiter
C9_Witness ==
    /\ pc = "decoding"
    /\ dbits \in ValidBits
    /\ idx > 0
    /\ n_bits # 8 - dbits
    /\ char = <<>>
    /\ EndsWith(secret, DELIMITER)

(* C10: a decode at encode's width on an encoded grid never reads a        *)
(* channel past the last one encode wrote, and so ends with the payload's  *)
(* delimiter found.  Stated as the claim states it; the code violates it.  *)
C10_StopsAtStreamEnd ==
    SameWidthDecode =>
        /\ idx <= Chunks(bits)
        /\ (8 * Len(secret)) + Len(char) <= StreamLen

====
